---------------------------- MODULE Spec2Model ----------------------------
(***************************************************************************)
(* scale-comparison: the animation state machine (AnimStep, Animation),    *)
(* the Viewport controller and the host State that owns the item list.     *)
(*                                                                         *)
(* Reals are kept as exact fixed-point integers.  The units are chosen so  *)
(* that every product and quotient the code computes is an integer:       *)
(*   scale_speed, slow_scale_speed : 1 / SPEED_UNIT                        *)
(*   scale, Thing::scale()         : 1 / SCALE_UNIT  (SPEED_UNIT * FPS)    *)
(*   shift, prev_shift, camera.x   : 1 / SHIFT_UNIT                        *)
(* so that `scale += scale_speed / FPS` is `scale + scale_speed` in units. *)
(* f64 rounding error is not modelled; -infinity (log10 of a zero          *)
(* significand) and the NaN it produces in a comparison are.               *)
(***************************************************************************)
EXTENDS Integers, Sequences, FiniteSets, TLC

(***************************************************************************)
(* Bounds of the model.                                                    *)
(***************************************************************************)
\* longest item list the Data tab may build
MaxThings == 2
\* ticks applied to one Viewport before the model stops ticking it
MaxFrame == 1300
\* ticks applied when Animation::tick is driven directly
MaxAnimFrame == 450
\* ticks applied in the end-to-end scenario
ScenarioFrames == 3900
\* largest exponent an edit may commit
MaxExponent == 3

(***************************************************************************)
(* animation.rs: constants                                                 *)
(***************************************************************************)
FRAME_DURATION == 16
\* FPS = 1000 / FRAME_DURATION = 62.5; TIME * FPS as u64 = TIME_MS \div 16
IDLE_TIME_MS == 1000
PAUSING_TIME_MS == 3000
SLOWING_TIME_MS == 100
SHIFTING_TIME_MS == 2000

IDLE_FRAMES == IDLE_TIME_MS \div FRAME_DURATION
PAUSING_FRAMES == PAUSING_TIME_MS \div FRAME_DURATION
SLOWING_FRAMES == SLOWING_TIME_MS \div FRAME_DURATION
SHIFTING_FRAMES == SHIFTING_TIME_MS \div FRAME_DURATION

(***************************************************************************)
(* Fixed-point units.                                                      *)
(***************************************************************************)
SPEED_UNIT == 1000 * SLOWING_FRAMES * SLOWING_FRAMES * SLOWING_FRAMES
SCALE_UNIT == (SPEED_UNIT * 1000) \div FRAME_DURATION
SHIFT_UNIT == SHIFTING_FRAMES * SHIFTING_FRAMES * SHIFTING_FRAMES

(***************************************************************************)
(* viewport.rs, thing.rs: constants                                        *)
(***************************************************************************)
\* 2.85
SCALE_PADDING == 285 * (SCALE_UNIT \div 100)
\* 0.025
IDLE_SCALE_SPEED == (25 * SPEED_UNIT) \div 1000
\* 0.25
SCALE_ACCELERATION == (250 * SPEED_UNIT) \div 1000
\* 3.
INITIAL_SLOW_SCALE_SPEED == 3 * SPEED_UNIT
INITIAL_CAMERA_POSITION == [x |-> 0, y |-> 350 * SHIFT_UNIT]
BAR_WIDTH == 40
BAR_GAP == 100
BAR_OFFSET == BAR_WIDTH + BAR_GAP

\* SCALE_ACCELERATION / Animation::FPS
AccelPerTick == (SCALE_ACCELERATION * FRAME_DURATION) \div 1000

(***************************************************************************)
(* f64 values outside the integers: log10(0.) is -infinity.                *)
(***************************************************************************)
NEG_INFINITY == 0 - 2000000000

\* a + b for a possibly -infinite a and a finite b
FAdd(a, b) == IF a = NEG_INFINITY THEN NEG_INFINITY ELSE a + b

\* a - b <= c in f64: (-inf) - (-inf) is NaN and compares false,
\* finite - (-inf) is +inf, (-inf) - finite is -inf
FSubLe(a, b, c) ==
    IF a = NEG_INFINITY
    THEN b # NEG_INFINITY
    ELSE IF b = NEG_INFINITY THEN FALSE ELSE a - b <= c

(***************************************************************************)
(* math.rs: ENumber.  The exponent is a whole number.  The significand is  *)
(* an f64 scaled down: a binary floating-point number with                 *)
(* MANTISSA_DIGITS bits of precision instead of 53, rounded to nearest,    *)
(* ties to even, and held as an integer count of 2^-SIG_FRACTION_BITS.     *)
(* 13 = 1 + 4 * 3 bits round 0.1 and 0.01 upwards, as 53 = 1 + 4 * 13 do.  *)
(***************************************************************************)
MANTISSA_DIGITS == 13
SIG_FRACTION_BITS == 19

RECURSIVE Pow2(_)
Pow2(k) == IF k = 0 THEN 1 ELSE 2 * Pow2(k - 1)

RECURSIVE Pow10(_)
Pow10(k) == IF k = 0 THEN 1 ELSE 10 * Pow10(k - 1)

\* 1.0
SIG_ONE == Pow2(SIG_FRACTION_BITS)

Abs(x) == IF x < 0 THEN 0 - x ELSE x

Sign(x) == IF x < 0 THEN 0 - 1 ELSE IF x > 0 THEN 1 ELSE 0

RECURSIVE BitLen(_)
\* number of binary digits of n >= 0
BitLen(n) == IF n = 0 THEN 0 ELSE 1 + BitLen(n \div 2)

RECURSIVE TrailingZeros(_)
\* number of trailing binary zeros of n > 0
TrailingZeros(n) == IF n % 2 = 1 THEN 0 ELSE 1 + TrailingZeros(n \div 2)

\* n * 2^t
Shift(n, t) == IF t >= 0 THEN n * Pow2(t) ELSE n \div Pow2(0 - t)

\* n >= 0 rounded to MANTISSA_DIGITS significant bits, ties to even
Round(n) ==
    IF BitLen(n) <= MANTISSA_DIGITS THEN n
    ELSE LET sh == BitLen(n) - MANTISSA_DIGITS
             q == n \div Pow2(sh)
             r == n % Pow2(sh)
             half == Pow2(sh - 1)
         IN  IF r > half \/ (r = half /\ q % 2 = 1)
             THEN (q + 1) * Pow2(sh)
             ELSE q * Pow2(sh)

\* a * b in f64: the exact product, rounded
FMul(a, b) ==
    IF a = 0 \/ b = 0 THEN 0
    ELSE LET ta == TrailingZeros(Abs(a))
             tb == TrailingZeros(Abs(b))
             prod == Shift(Abs(a), 0 - ta) * Shift(Abs(b), 0 - tb)
         IN  Sign(a) * Sign(b)
             * Shift(Round(prod), ta + tb - SIG_FRACTION_BITS)

\* a / b in f64 for b # 0: the exact quotient, rounded (the quotient to
\* MANTISSA_DIGITS + 2 bits and a sticky bit for the remainder)
FDiv(a, b) ==
    IF a = 0 THEN 0
    ELSE LET ea == BitLen(Abs(a)) - MANTISSA_DIGITS
             eb == BitLen(Abs(b)) - MANTISSA_DIGITS
             num == Shift(Abs(a), 0 - ea) * Pow2(MANTISSA_DIGITS + 2)
             den == Shift(Abs(b), 0 - eb)
             sticky == IF num % den = 0 THEN 0 ELSE 1
         IN  Sign(a) * Sign(b)
             * Shift(Round(2 * (num \div den) + sticky),
                     ea - eb + SIG_FRACTION_BITS - MANTISSA_DIGITS - 3)

\* the f64 nearest to the decimal literal num / den (str::parse, literals)
Lit(num, den) == FDiv(num * SIG_ONE, den * SIG_ONE)

\* f64::next_down for a > 0
NextDown(a) ==
    IF a = Pow2(BitLen(a) - 1)
    THEN a - Shift(1, BitLen(a) - 1 - MANTISSA_DIGITS)
    ELSE a - Shift(1, BitLen(a) - MANTISSA_DIGITS)

RECURSIVE FloorLog10(_)
\* floor(log10(m / SIG_ONE)) for m > 0, exactly
FloorLog10(m) ==
    IF m >= 10 * SIG_ONE THEN 1 + FloorLog10(m \div 10)
    ELSE IF m < SIG_ONE THEN FloorLog10(m * 10) - 1
    ELSE 0

\* log2 of half the distance from the whole number K # 0 to the f64 below
\* it, in units of 2^-MANTISSA_DIGITS
HalfGapLog2(K) ==
    IF K > 0
    THEN BitLen(K) - 1 - (IF K = Pow2(BitLen(K) - 1) THEN 1 ELSE 0)
    ELSE BitLen(0 - K) - 1

\* 1000 * ln 10, to four digits
LN10_MILLI == 2303

\* m < 10^K is so close to 10^K that log10(m) rounds to K exactly:
\* K - log10(m) <= half gap, that is 1 - m / 10^K <= half gap * ln 10
Log10RoundsTo(m, K) ==
    IF K = 0 THEN FALSE
    ELSE LET pw == IF K > 0 THEN Pow10(K) * SIG_ONE ELSE SIG_ONE
             d == IF K > 0 THEN pw - m ELSE pw - m * Pow10(0 - K)
             sh == MANTISSA_DIGITS - HalfGapLog2(K)
         IN  d > 0 /\ d <= ((pw \div Pow2(sh)) * LN10_MILLI) \div 1000

\* m.log10().floor() for m > 0: the floor of the rounded logarithm
Log10Floor(m) ==
    IF Log10RoundsTo(m, FloorLog10(m) + 1)
    THEN FloorLog10(m) + 1
    ELSE FloorLog10(m)

\* 10_f64.powf(k) for a whole k
powf10(k) ==
    IF k >= 0 THEN Round(Pow10(k) * SIG_ONE)
    ELSE FDiv(SIG_ONE, Pow10(0 - k) * SIG_ONE)

normalize(significand, exponent) ==
    IF significand = 0
    THEN [significand |-> 0, exponent |-> 0]
    ELSE LET adjustment == Log10Floor(Abs(significand))
         IN  [significand |-> FDiv(significand, powf10(adjustment)),
              exponent |-> exponent + adjustment]

\* ENumber::new; the exponent is an i32
new(significand, exponent) == normalize(significand, exponent)

\* ENumber::from_exp
from_exp(exponent) == normalize(SIG_ONE, exponent)

\* impl From<f64> for ENumber
from(value) == new(value, 0)

\* impl From<(f64, i32)> for ENumber
from_pair(value) == new(value[1], value[2])

\* impl Mul<ENumber> for ENumber
mul(a, b) ==
    normalize(FMul(a.significand, b.significand), a.exponent + b.exponent)

\* a division that adds the exponents
div_addingExponents(a, b) ==
    normalize(FDiv(a.significand, b.significand), a.exponent + b.exponent)

\* impl Div<ENumber> for ENumber
div(a, b) ==
    normalize(FDiv(a.significand, b.significand), a.exponent - b.exponent)

(***************************************************************************)
(* collapse: the product significand * 10^exponent leaves the range of the *)
(* significand's fixed point, so it is kept as mantissa m and binary       *)
(* exponent x (value m * 2^x), or as zero, infinity or NaN.                *)
(***************************************************************************)
\* f64::MAX_EXP - 1: the largest binary exponent of a finite f64
F64_MAX_EXP == 1023
\* f64::MIN_EXP - 1: the least binary exponent of a normal f64
F64_MIN_EXP == 0 - 1022

\* 10^e rounded to MANTISSA_DIGITS bits, as <<m, x>>, for the exponents
\* collapse is applied to
Pow10Rounded(e) ==
    CASE e = 0 - 400 -> <<4800, 0 - 1341>>
      [] e = 0 - 76 -> <<5929, 0 - 265>>
      [] e = 0 -> <<4096, 0 - 12>>
      [] e = 2 -> <<6400, 0 - 6>>
      [] e = 67 -> <<6077, 210>>
      [] e = 307 -> <<7291, 1007>>
      [] e = 308 -> <<4557, 1011>>
      [] e = 309 -> <<5696, 1014>>

\* an f64 from a mantissa and a binary exponent: overflow gives infinity,
\* a value below the least subnormal gives zero
F64(mantissa, exp2) ==
    IF mantissa = 0 THEN [kind |-> "zero", m |-> 0, x |-> 0]
    ELSE IF BitLen(Abs(mantissa)) - 1 + exp2 > F64_MAX_EXP
    THEN [kind |-> "inf", m |-> Sign(mantissa), x |-> 0]
    ELSE IF BitLen(Abs(mantissa)) - 1 + exp2
            < F64_MIN_EXP - (MANTISSA_DIGITS - 1)
    THEN [kind |-> "zero", m |-> 0, x |-> 0]
    ELSE [kind |-> "finite", m |-> mantissa, x |-> exp2]

\* 10_f64.powf(exponent)
powf(exponent) == F64(Pow10Rounded(exponent)[1], Pow10Rounded(exponent)[2])

\* significand * p for an f64 p
FMulBig(significand, p) ==
    IF p.kind = "nan" THEN [kind |-> "nan", m |-> 0, x |-> 0]
    ELSE IF p.kind = "inf"
    THEN IF significand = 0
         THEN [kind |-> "nan", m |-> 0, x |-> 0]
         ELSE [kind |-> "inf", m |-> Sign(significand) * p.m, x |-> 0]
    ELSE IF p.kind = "zero" \/ significand = 0
    THEN [kind |-> "zero", m |-> 0, x |-> 0]
    ELSE LET t == TrailingZeros(Abs(significand))
         IN  F64(Sign(significand)
                   * Round(Shift(Abs(significand), 0 - t) * p.m),
                 p.x + t - SIG_FRACTION_BITS)

\* f64::is_finite
is_finite(v) == v.kind \in {"finite", "zero"}

\* a collapse that does not test the result
collapse_unchecked(n) ==
    [is_some |-> TRUE, value |-> FMulBig(n.significand, powf(n.exponent))]

\* ENumber::collapse
collapse(n) ==
    LET result == FMulBig(n.significand, powf(n.exponent))
    IN  [is_some |-> is_finite(result), value |-> result]

(***************************************************************************)
(* to_scale: the exponent of self / from_exp(scale) is not a whole number. *)
(* Such an f64 is kept in hundredths, [kind |-> "finite", h |-> n], or as  *)
(* an infinity (h its sign) or NaN.                                        *)
(***************************************************************************)
EXP_UNIT == 100

Finite(h) == [kind |-> "finite", h |-> h]
PosInf == [kind |-> "inf", h |-> 1]
NegInf == [kind |-> "inf", h |-> 0 - 1]
NaN == [kind |-> "nan", h |-> 0]

\* exponent - sc in f64, for a whole exponent and an f64 sc
ExpSub(exponent, sc) ==
    CASE sc.kind = "finite" -> Finite(exponent * EXP_UNIT - sc.h)
      [] sc.kind = "inf" -> [kind |-> "inf", h |-> 0 - sc.h]
      [] sc.kind = "nan" -> NaN

\* 10^(h / 100) rounded to MANTISSA_DIGITS bits, as <<m, x>>, for the
\* exponents to_scale meets
Pow10Hundredths(h) ==
    CASE h = 0 - 14015 -> <<5525, 0 - 478>>
      [] h = 0 - 7650 -> <<7499, 0 - 267>>
      [] h = 0 - 7600 -> <<5929, 0 - 265>>
      [] h = 0 - 7315 -> <<4099, 0 - 255>>
      [] h = 0 - 6415 -> <<7634, 0 - 226>>
      [] h = 0 - 6215 -> <<5964, 0 - 219>>
      [] h = 0 - 50 -> <<5181, 0 - 14>>
      [] h = 0 -> <<4096, 0 - 12>>
      [] h = 150 -> <<8095, 0 - 8>>
      [] h = 200 -> <<6400, 0 - 6>>
      [] h = 285 -> <<5664, 0 - 3>>
      [] h = 485 -> <<4425, 4>>
      [] h = 6650 -> <<7687, 208>>
      [] h = 6700 -> <<6077, 210>>
      [] h = 6985 -> <<4201, 220>>
      [] h = 24485 -> <<5309, 801>>
      [] h = 30850 -> <<7205, 1012>>
      [] h = 30900 -> <<5696, 1014>>
      [] h = 31185 -> <<7876, 1023>>

\* 10_f64.powf(d) for an f64 d: 10^inf is inf, 10^-inf is 0, 10^NaN is NaN
powf_f64(d) ==
    CASE d.kind = "finite" ->
            F64(Pow10Hundredths(d.h)[1], Pow10Hundredths(d.h)[2])
      [] d.kind = "inf" ->
            IF d.h > 0 THEN [kind |-> "inf", m |-> 1, x |-> 0]
            ELSE [kind |-> "zero", m |-> 0, x |-> 0]
      [] d.kind = "nan" -> [kind |-> "nan", m |-> 0, x |-> 0]

\* the sign of an f64 that is not NaN
F64Sign(v) == IF v.kind = "zero" THEN 0 ELSE Sign(v.m)

\* the binary exponent of the leading bit of a non-zero f64
F64Top(v) ==
    IF v.kind = "inf" THEN F64_MAX_EXP + 1 ELSE BitLen(Abs(v.m)) - 1 + v.x

\* the mantissa of a non-zero f64, leading bit at position 29
F64Frac(v) ==
    IF v.kind = "inf" THEN 0 ELSE Shift(Abs(v.m), 30 - BitLen(Abs(v.m)))

\* |a| < |b| for non-zero a, b
F64MagLt(a, b) ==
    \/ F64Top(a) < F64Top(b)
    \/ F64Top(a) = F64Top(b) /\ F64Frac(a) < F64Frac(b)

\* a < b in f64: false when either is NaN
F64Lt(a, b) ==
    /\ a.kind # "nan"
    /\ b.kind # "nan"
    /\ \/ F64Sign(a) < F64Sign(b)
       \/ F64Sign(a) = 1 /\ F64Sign(b) = 1 /\ F64MagLt(a, b)
       \/ F64Sign(a) = 0 - 1 /\ F64Sign(b) = 0 - 1 /\ F64MagLt(b, a)

\* a <= b in f64: false when either is NaN
F64Le(a, b) == a.kind # "nan" /\ b.kind # "nan" /\ ~F64Lt(b, a)

\* f64::min: the other operand when one of the two is NaN
fmin(a, b) ==
    IF a.kind = "nan" THEN b
    ELSE IF b.kind = "nan" THEN a
    ELSE IF F64Lt(b, a) THEN b ELSE a

\* a limit_collapse that does not apply the limit
limit_collapse_unlimited(n, max) == FMulBig(n.significand, powf_f64(n.exponent))

\* ENumber::limit_collapse
limit_collapse(n, max) ==
    fmin(FMulBig(n.significand, powf_f64(n.exponent)), max)

\* ENumber::to_scale: (self / ENumber::from_exp(scale)).limit_collapse(max).
\* from_exp(scale) is {1., scale}; the quotient of the significands is
\* normalized as Div does, and its exponent is that of self less scale
\* (0. for a zero quotient).
to_scale(n, sc, max) ==
    LET quotient == FDiv(n.significand, from_exp(0).significand)
        q == normalize(quotient, n.exponent)
    IN  limit_collapse([significand |-> q.significand,
                        exponent |-> IF quotient = 0 THEN Finite(0)
                                     ELSE ExpSub(q.exponent, sc)],
                       max)

\* ENumber::default(): derived Default, both fields 0.
ENumberDefault == [significand |-> 0, exponent |-> 0]

\* log10(|significand|) of a normalized significand, in SCALE_UNITs
\* (log10 2 = 0.30103, log10 5 = 0.69897)
Log10Abs(significand) ==
    CASE Abs(significand) = 0 -> NEG_INFINITY
      [] Abs(significand) = SIG_ONE -> 0
      [] Abs(significand) = 2 * SIG_ONE -> 30103 * (SCALE_UNIT \div 100000)
      [] Abs(significand) = 5 * SIG_ONE -> 69897 * (SCALE_UNIT \div 100000)

\* erect().1 = exponent + log10(|significand|)
erect(e) ==
    IF Log10Abs(e.significand) = NEG_INFINITY
    THEN NEG_INFINITY
    ELSE e.exponent * SCALE_UNIT + Log10Abs(e.significand)

\* Thing::scale
ThingScale(thing) == erect(thing)

\* the decimal texts of the whole numbers 0..9
DigitText == <<"0", "1", "2", "3", "4", "5", "6", "7", "8", "9">>

IsDigitText(text) == \E n \in 0..9 : DigitText[n + 1] = text

DigitOf(text) == CHOOSE n \in 0..9 : DigitText[n + 1] = text

\* str::parse::<f64> on the text of the significand field
ParseSignificand(text) ==
    IF IsDigitText(text) THEN [ok |-> TRUE, val |-> DigitOf(text) * SIG_ONE]
    ELSE IF text = "20" THEN [ok |-> TRUE, val |-> 20 * SIG_ONE]
    ELSE [ok |-> FALSE, val |-> 0]

\* str::parse::<f64> on the text of the exponent field
ParseExponent(text) ==
    IF IsDigitText(text) THEN [ok |-> TRUE, val |-> DigitOf(text)]
    ELSE [ok |-> FALSE, val |-> 0]

\* f64::to_string of a significand that is a whole number 0..9
SignificandToString(significand) == DigitText[(significand \div SIG_ONE) + 1]

\* f64::to_string of an exponent 0..9
ExponentToString(exponent) == DigitText[exponent + 1]

\* ENumberEditor::default(): derived Default
ENumberEditorDefault == [editing |-> FALSE, significand |-> "", exponent |-> ""]

\* impl From<ENumber> for ENumberEditor
into(value) ==
    [editing |-> TRUE,
     significand |-> SignificandToString(value.significand),
     exponent |-> ExponentToString(value.exponent)]

\* a conversion that fills in 0 for an exponent text that does not parse
try_into_partial(sig_text, exp_text) ==
    IF ~ParseSignificand(sig_text).ok THEN [ok |-> FALSE, val |-> ENumberDefault]
    ELSE [ok |-> TRUE,
          val |-> normalize(ParseSignificand(sig_text).val,
                            ParseExponent(exp_text).val)]

\* impl TryInto<ENumber> for ENumberEditor: `?` returns the first error
try_into(sig_text, exp_text) ==
    IF ~ParseSignificand(sig_text).ok THEN [ok |-> FALSE, val |-> ENumberDefault]
    ELSE IF ~ParseExponent(exp_text).ok THEN [ok |-> FALSE, val |-> ENumberDefault]
    ELSE [ok |-> TRUE,
          val |-> normalize(ParseSignificand(sig_text).val,
                            ParseExponent(exp_text).val)]

\* texts the user types into the two editor fields
SignificandTexts == {"1", "abc"}
ExponentTexts == {"0", "1", ""}

(***************************************************************************)
(* units.rs: impl Display for TimeScale.  The thresholds are decimal       *)
(* numbers of seconds, so here the Magnitude is kept in decimal: the       *)
(* significand is a whole count of 10^-DEC_DIGITS (1 <= |significand| < 10 *)
(* is DEC_ONE <= |count| < 10 * DEC_ONE) and the arithmetic is exact; the  *)
(* rounding of the f64 operations is not modelled.                         *)
(***************************************************************************)
DEC_DIGITS == 8
DEC_ONE == Pow10(DEC_DIGITS)

MINUTE == 60
HOUR == 3600
DAY == 86400
YEAR == 31556952
\* MEGA, GIGA, TERA, PETA: 10^6, 10^9, 10^12, 10^15
MEGA_DIGITS == 6
GIGA_DIGITS == 9
TERA_DIGITS == 12
PETA_DIGITS == 15

\* a comparison with the bound itself excluded
DecLe_exclusive(sg, t, bound) ==
    IF sg <= 0 THEN TRUE
    ELSE IF t >= 0 THEN FALSE
    ELSE IF t <= 0 - 10 THEN TRUE
    ELSE sg \div Pow10(0 - t) < bound

\* sg * 10^t <= bound, for |sg| < 10 * DEC_ONE and 0 < bound < DEC_ONE
\* (the range pattern ..=bound)
DecLe(sg, t, bound) ==
    IF sg <= 0 THEN TRUE
    ELSE IF t >= 0 THEN FALSE
    ELSE IF t <= 0 - 10 THEN TRUE
    ELSE \/ sg \div Pow10(0 - t) < bound
         \/ sg \div Pow10(0 - t) = bound /\ sg % Pow10(0 - t) = 0

\* sg * 10^t < bound (the range pattern ..bound)
DecLt(sg, t, bound) ==
    IF sg <= 0 THEN TRUE
    ELSE IF t >= 0 THEN FALSE
    ELSE IF t <= 0 - 10 THEN TRUE
    ELSE sg \div Pow10(0 - t) < bound

\* collapse() is present: significand * 10^exponent is at most f64::MAX,
\* 1.79769313e308
DecIsFinite(n) ==
    \/ n.significand = 0
    \/ n.exponent < 308
    \/ n.exponent = 308 /\ Abs(n.significand) <= 179769313

\* the whole part of sg * 10^t, for sg >= 0 and t <= 0
DecWhole(sg, t) ==
    IF t >= 0 THEN sg
    ELSE IF t <= 0 - 10 THEN 0
    ELSE sg \div Pow10(0 - t)

\* the fraction of sg * 10^t, in units of 10^-DEC_DIGITS
DecFrac(sg, t) ==
    IF t >= 0 THEN 0
    ELSE IF t >= 0 - DEC_DIGITS
    THEN (sg % Pow10(0 - t)) * Pow10(DEC_DIGITS + t)
    ELSE IF t <= 0 - DEC_DIGITS - 10 THEN 0
    ELSE sg \div Pow10(0 - t - DEC_DIGITS)

RECURSIVE LongDiv(_, _, _, _)
\* <<quotient, remainder>> of (q * den + r) * 10^k by den, digit by digit
LongDiv(q, r, den, k) ==
    IF k = 0 THEN <<q, r>>
    ELSE LongDiv(10 * q + (10 * r) \div den, (10 * r) % den, den, k - 1)

RECURSIVE DecLen(_)
\* number of decimal digits of x >= 0
DecLen(x) == IF x = 0 THEN 0 ELSE 1 + DecLen(x \div 10)

RECURSIVE LeftPad(_, _)
\* the k decimal digits of x
LeftPad(x, k) ==
    IF k = 0 THEN "" ELSE LeftPad(x \div 10, k - 1) \o DigitText[(x % 10) + 1]

RECURSIVE TrimmedFraction(_, _)
\* "." and the k decimals x without trailing zeros, "" for x = 0
TrimmedFraction(x, k) ==
    IF x = 0 THEN ""
    ELSE IF x % 10 = 0 THEN TrimmedFraction(x \div 10, k - 1)
    ELSE "." \o LeftPad(x, k)

\* utils::float_to_string of w + f / DEC_ONE (negated if neg): rounded to
\* two decimals, or to two significant digits below 1, trailing zeros and
\* a trailing point dropped
float_to_string(neg, w, f) ==
    LET k == IF w > 0 \/ f = 0 THEN 2
             ELSE IF DecLen(f) <= 2 THEN DEC_DIGITS
             ELSE 2 + DEC_DIGITS - DecLen(f)
        u == Pow10(DEC_DIGITS - k)
        r == (f + u \div 2) \div u
        carry == r = Pow10(k)
        whole == IF carry THEN w + 1 ELSE w
        frac == IF carry THEN 0 ELSE r
    IN  (IF neg /\ (whole > 0 \/ frac > 0) THEN "-" ELSE "")
        \o ToString(whole) \o TrimmedFraction(frac, k)

\* format!("{:.0}", q + rest / den) for 0 <= rest < den: the nearest
\* whole number, ties to even; above is whether anything lies beyond rest
Fmt0(q, rest, den, above) ==
    ToString(IF \/ 2 * rest > den
                \/ 2 * rest = den /\ (above \/ q % 2 = 1)
             THEN q + 1 ELSE q)

\* the message of the expect in fmt_exp_break
Panicked == "panicked: Low exponents sould be collapsible"

\* ENumber::fmt_exp_break
fmt_exp_break(n, exp_break) ==
    IF 0 - exp_break <= n.exponent /\ n.exponent <= exp_break
    THEN IF DecIsFinite(n)
         THEN float_to_string(n.significand < 0,
                              DecWhole(Abs(n.significand),
                                       n.exponent - DEC_DIGITS),
                              DecFrac(Abs(n.significand),
                                      n.exponent - DEC_DIGITS))
         ELSE Panicked
    ELSE float_to_string(n.significand < 0,
                         Abs(n.significand) \div DEC_ONE,
                         Abs(n.significand) % DEC_ONE)
         \o "e" \o ToString(n.exponent)

\* impl Div<f64> for ENumber, for the divisor YEAR = 3.1556952e7
div_f64(n, rhs) ==
    IF n.significand = 0 THEN [significand |-> 0, exponent |-> 0]
    ELSE IF Abs(n.significand) >= 10 * rhs
    THEN [significand |->
              Sign(n.significand)
              * LongDiv(Abs(n.significand) \div rhs,
                        Abs(n.significand) % rhs, rhs, DEC_DIGITS - 1)[1],
          exponent |-> n.exponent - 7]
    ELSE [significand |->
              Sign(n.significand)
              * LongDiv(Abs(n.significand) \div rhs,
                        Abs(n.significand) % rhs, rhs, DEC_DIGITS)[1],
          exponent |-> n.exponent - 8]

\* units.rs 56-71: float_to_string(yrs / 10^digits) and the unit, for
\* yrs = sg * 10^t / YEAR with t >= -1
YearsText(sg, t, digits, unit) ==
    LET d == t - digits
        whole == IF d >= 0 THEN LongDiv(sg \div YEAR, sg % YEAR, YEAR, d)
                 ELSE <<(sg \div 10) \div YEAR, (sg \div 10) % YEAR>>
    IN  float_to_string(FALSE, whole[1],
                        LongDiv(0, whole[2], YEAR, DEC_DIGITS)[1])
        \o unit

\* a fallback that always writes seconds
Fallback_seconds(n) == fmt_exp_break(n, 6) \o " s"

\* units.rs 78-83; f64::signum is 1. for +0.
Fallback(n) ==
    IF n.exponent >= 0
    THEN fmt_exp_break(div_f64(n, YEAR), 6) \o " y"
    ELSE fmt_exp_break(n, 6) \o " s"

\* impl Display for TimeScale
fmt(n) ==
    LET sg == n.significand
        t == n.exponent - DEC_DIGITS
        w == DecWhole(Abs(sg), t)
        f == DecFrac(Abs(sg), t)
    IN  IF ~DecIsFinite(n) THEN Fallback(n)
        ELSE IF DecLe(sg, t, MINUTE) THEN fmt_exp_break(n, 6) \o " s"
        ELSE IF DecLe(sg, t, HOUR)
        THEN ToString(w \div MINUTE) \o " m"
             \o (IF w % MINUTE # 0 \/ f # 0
                 THEN " " \o Fmt0(w % MINUTE, f, DEC_ONE, FALSE) \o " s"
                 ELSE "")
        ELSE IF DecLe(sg, t, DAY)
        THEN ToString(w \div HOUR) \o " h"
             \o (IF w % HOUR # 0 \/ f # 0
                 THEN " " \o Fmt0((w % HOUR) \div MINUTE, (w % HOUR) % MINUTE,
                                  MINUTE, f # 0)
                      \o " m"
                 ELSE "")
        ELSE IF DecLe(sg, t, YEAR)
        THEN float_to_string(FALSE, w \div DAY,
                             LongDiv(0, w % DAY, DAY, DEC_DIGITS)[1])
             \o " d"
        ELSE IF DecLt(sg, t - MEGA_DIGITS, YEAR) THEN YearsText(sg, t, 0, " y")
        ELSE IF DecLt(sg, t - GIGA_DIGITS, YEAR)
        THEN YearsText(sg, t, MEGA_DIGITS, " My")
        ELSE IF DecLt(sg, t - TERA_DIGITS, YEAR)
        THEN YearsText(sg, t, GIGA_DIGITS, " Gy")
        ELSE IF DecLt(sg, t - PETA_DIGITS, YEAR)
        THEN YearsText(sg, t, TERA_DIGITS, " Ty")
        ELSE Fallback(n)

\* no call into math.rs yet
NoCall == [fn |-> "none", args |-> << >>, ret |-> << >>]

(***************************************************************************)
(* State: lib.rs State {tab, things, viewport}; viewport.rs Viewport;      *)
(* animation.rs Animation {active, frame, step}.                           *)
(***************************************************************************)
VARIABLES
    tab,              \* State.tab: "Data" or "Preview"
    things,           \* State.things: sequence of ENumber (Thing.value.0)
    active,           \* viewport.animation.active
    frame,            \* viewport.animation.frame
    step,             \* viewport.animation.step: [kind, n]
    scale,            \* viewport.scale
    scale_speed,      \* viewport.scale_speed
    slow_scale_speed, \* viewport.slow_scale_speed
    prev_shift,       \* viewport.prev_shift
    shift,            \* viewport.shift
    camera,           \* viewport.camera: the translation [x, y]
    scaling_done,     \* argument of the latest Animation::tick
    slowing_done,     \* argument of the latest Animation::tick
    ticks,            \* history: Animation::tick calls on the current Animation
    editor,           \* the ENumberEditor of the item being edited (TimeScale.1)
    call              \* history: the latest call into math.rs, [fn, args, ret]

vars == <<tab, things, active, frame, step, scale, scale_speed,
          slow_scale_speed, prev_shift, shift, camera,
          scaling_done, slowing_done, ticks, editor, call>>

viewport == <<active, frame, step, scale, scale_speed, slow_scale_speed,
              prev_shift, shift, camera>>

(***************************************************************************)
(* animation.rs: AnimStep                                                  *)
(***************************************************************************)
Idle(n) == [kind |-> "Idle", n |-> n]
Scaling == [kind |-> "Scaling", n |-> 0]
Slowing(n) == [kind |-> "Slowing", n |-> n]
Pausing(n) == [kind |-> "Pausing", n |-> n]
Shifting(n) == [kind |-> "Shifting", n |-> n]

\* a default that starts the cycle at Idle instead of Shifting
AnimStepDefault_idle == Idle(IDLE_FRAMES)

\* impl Default for AnimStep
AnimStepDefault == Shifting(SHIFTING_FRAMES)

\* next without the Slowing phase (Scaling -> Pausing)
next_skipSlowing(s) ==
    CASE s.kind = "Idle" -> Scaling
      [] s.kind = "Scaling" -> Pausing(PAUSING_FRAMES)
      [] s.kind = "Slowing" -> Pausing(PAUSING_FRAMES)
      [] s.kind = "Pausing" -> Shifting(SHIFTING_FRAMES)
      [] s.kind = "Shifting" -> Idle(IDLE_FRAMES)

\* AnimStep::next
next(s) ==
    CASE s.kind = "Idle" -> Scaling
      [] s.kind = "Scaling" -> Slowing(SLOWING_FRAMES)
      [] s.kind = "Slowing" -> Pausing(PAUSING_FRAMES)
      [] s.kind = "Pausing" -> Shifting(SHIFTING_FRAMES)
      [] s.kind = "Shifting" -> Idle(IDLE_FRAMES)

\* advance with the Scaling arm testing the wrong predicate
advance_wrongPredicate(s, sc_done, sl_done) ==
    CASE s.kind \in {"Idle", "Pausing", "Shifting"} ->
            IF s.n > 0 THEN [s EXCEPT !.n = s.n - 1] ELSE next(s)
      [] s.kind = "Scaling" ->
            IF sl_done THEN next(s) ELSE s
      [] s.kind = "Slowing" ->
            IF sl_done \/ s.n = 0 THEN next(s) ELSE [s EXCEPT !.n = s.n - 1]

\* advance with the countdown arm leaving one frame early (n > 1)
advance_offByOne(s, sc_done, sl_done) ==
    CASE s.kind \in {"Idle", "Pausing", "Shifting"} ->
            IF s.n > 1 THEN [s EXCEPT !.n = s.n - 1] ELSE next(s)
      [] s.kind = "Scaling" ->
            IF sc_done THEN next(s) ELSE s
      [] s.kind = "Slowing" ->
            IF sl_done \/ s.n = 0 THEN next(s) ELSE [s EXCEPT !.n = s.n - 1]

\* advance with the Slowing arm without the early exit
advance_noEarlyExit(s, sc_done, sl_done) ==
    CASE s.kind \in {"Idle", "Pausing", "Shifting"} ->
            IF s.n > 0 THEN [s EXCEPT !.n = s.n - 1] ELSE next(s)
      [] s.kind = "Scaling" ->
            IF sc_done THEN next(s) ELSE s
      [] s.kind = "Slowing" ->
            IF s.n = 0 THEN next(s) ELSE [s EXCEPT !.n = s.n - 1]

\* a frame counter one byte wide
tick_frame_wrapping(f) == (f + 1) % 256

\* Animation::tick, line 79: self.frame += 1
tick_frame(f) == f + 1

\* AnimStep::advance
advance(s, sc_done, sl_done) ==
    CASE s.kind \in {"Idle", "Pausing", "Shifting"} ->
            IF s.n > 0 THEN [s EXCEPT !.n = s.n - 1] ELSE next(s)
      [] s.kind = "Scaling" ->
            IF sc_done THEN next(s) ELSE s
      [] s.kind = "Slowing" ->
            IF sl_done \/ s.n = 0 THEN next(s) ELSE [s EXCEPT !.n = s.n - 1]

(***************************************************************************)
(* simple_easing, on the progress values the Viewport passes               *)
(***************************************************************************)
Cube(x) == x * x * x

\* SLOWING_FRAMES^3 * cubic_out(i / SLOWING_FRAMES), cubic_out(t) = 1 - (1-t)^3
CubicOut(i) == Cube(SLOWING_FRAMES) - Cube(SLOWING_FRAMES - i)

\* the first-half formula of cubic_in_out used for every progress
CubicInOut_firstHalfOnly(i) == 4 * Cube(SHIFTING_FRAMES - i)

\* SHIFT_UNIT * cubic_in_out(1 - i / SHIFTING_FRAMES),
\* cubic_in_out(t) = 4 t^3 if t < 0.5, else 1 - (2 - 2t)^3 / 2
CubicInOut(i) ==
    IF 2 * (SHIFTING_FRAMES - i) < SHIFTING_FRAMES
    THEN 4 * Cube(SHIFTING_FRAMES - i)
    ELSE SHIFT_UNIT - 4 * Cube(i)

Min(a, b) == IF a <= b THEN a ELSE b

(***************************************************************************)
(* thing.rs: Thing::alpha.  The f32 argument of cubic_in is kept to        *)
(* 1 / ALPHA_STEPS, the result is in units of 1 / ALPHA_STEPS^3.           *)
(***************************************************************************)
ALPHA_STEPS == 1000
ALPHA_ONE == Cube(ALPHA_STEPS)

\* alpha with the index counted from 1
alpha_oneBased(index, sh) ==
    LET d == sh - (index + 1) * SHIFT_UNIT
        c == IF d < 0 THEN 0 ELSE IF d > SHIFT_UNIT THEN SHIFT_UNIT ELSE d
    IN  Cube((c * ALPHA_STEPS) \div SHIFT_UNIT)

\* Thing::alpha: cubic_in((shift - index).clamp(0., 1.) as f32),
\* cubic_in(t) = t^3; index is 0-based
alpha(index, sh) ==
    LET d == sh - index * SHIFT_UNIT
        c == IF d < 0 THEN 0 ELSE IF d > SHIFT_UNIT THEN SHIFT_UNIT ELSE d
    IN  Cube((c * ALPHA_STEPS) \div SHIFT_UNIT)

(***************************************************************************)
(* viewport.rs: Viewport::update_animation, piece by piece                 *)
(***************************************************************************)
\* scaling_done with the operands of the subtraction swapped
ScalingDone_swapped(sh, sc, th) ==
    LET i == sh \div SHIFT_UNIT
    IN  IF i <= 0 THEN TRUE
        ELSE IF i <= Len(th)
             THEN FSubLe(sc, ThingScale(th[i]), SCALE_PADDING)
             ELSE FALSE

\* scaling_done that takes a missing item for one already reached
ScalingDone_missingIsDone(sh, sc, th) ==
    LET i == sh \div SHIFT_UNIT
    IN  IF i <= 0 THEN TRUE
        ELSE IF i <= Len(th)
             THEN FSubLe(ThingScale(th[i]), sc, SCALE_PADDING)
             ELSE TRUE

\* lines 67-76: things.get(floor(shift) - 1), 0-based
ScalingDone(sh, sc, th) ==
    LET i == sh \div SHIFT_UNIT
    IN  IF i <= 0 THEN TRUE
        ELSE IF i <= Len(th)
             THEN FSubLe(ThingScale(th[i]), sc, SCALE_PADDING)
             ELSE FALSE

\* slowing_done measured against the speed Slowing starts from
SlowingDone_wrongLimit(speed) == speed <= INITIAL_SLOW_SCALE_SPEED

\* line 77
SlowingDone(speed) == speed <= IDLE_SCALE_SPEED

\* the capture without the cap of INITIAL_SLOW_SCALE_SPEED
CaptureSlow_uncapped(st, speed, slow) ==
    IF st.kind = "Slowing" /\ st.n = SLOWING_FRAMES THEN speed ELSE slow

\* line 90: the speed captured on entry to Slowing
CaptureSlow(st, speed, slow) ==
    IF st.kind = "Slowing" /\ st.n = SLOWING_FRAMES
    THEN Min(speed, INITIAL_SLOW_SCALE_SPEED)
    ELSE slow

\* lines 92-99: the eased speed of Slowing(n)
SlowingSpeed(slow, n) ==
    IF n > 0
    THEN IDLE_SCALE_SPEED
         + ((slow - IDLE_SCALE_SPEED) * CubicOut(n)) \div Cube(SLOWING_FRAMES)
    ELSE IDLE_SCALE_SPEED

\* the per-state effect with Idle and Pausing stopping the scale
EffectSpeed_stopped(st, speed, slow) ==
    CASE st.kind \in {"Idle", "Pausing"} -> 0
      [] st.kind = "Scaling" -> speed + AccelPerTick
      [] st.kind = "Slowing" -> SlowingSpeed(CaptureSlow(st, speed, slow), st.n)
      [] st.kind = "Shifting" -> speed

\* the per-state effect with the Scaling speed capped at the speed Slowing
\* starts from
EffectSpeed_capped(st, speed, slow) ==
    CASE st.kind \in {"Idle", "Pausing"} -> IDLE_SCALE_SPEED
      [] st.kind = "Scaling" ->
            Min(speed + AccelPerTick, INITIAL_SLOW_SCALE_SPEED)
      [] st.kind = "Slowing" -> SlowingSpeed(CaptureSlow(st, speed, slow), st.n)
      [] st.kind = "Shifting" -> speed

\* lines 81-110: scale_speed after the per-state effect of the new step st
EffectSpeed(st, speed, slow) ==
    CASE st.kind \in {"Idle", "Pausing"} -> IDLE_SCALE_SPEED
      [] st.kind = "Scaling" -> speed + AccelPerTick
      [] st.kind = "Slowing" -> SlowingSpeed(CaptureSlow(st, speed, slow), st.n)
      [] st.kind = "Shifting" -> speed

\* a Shifting phase that ends without recording the completed shift
EffectPrevShift_frozen(st, prev) == prev

\* lines 105-107
EffectPrevShift(st, prev) ==
    IF st.kind = "Shifting" /\ st.n = 0 THEN prev + SHIFT_UNIT ELSE prev

\* the Shifting arm whose last tick falls back to the old settled value
EffectShift_fallsBack(st, prev, sh) ==
    IF st.kind = "Shifting"
    THEN IF st.n > 0 THEN prev + CubicInOut(st.n) ELSE prev
    ELSE sh

\* lines 101-109
EffectShift(st, prev, sh) ==
    IF st.kind = "Shifting"
    THEN IF st.n > 0 THEN prev + CubicInOut(st.n) ELSE prev + SHIFT_UNIT
    ELSE sh

\* the integration with the sign wrong
Integrate_minus(sc, speed) == FAdd(sc, 0 - speed)

\* line 112: scale += scale_speed / FPS
Integrate(sc, speed) == FAdd(sc, speed)

\* the camera moved the other way along x
CameraFor_plus(sh) ==
    [x |-> INITIAL_CAMERA_POSITION.x + BAR_OFFSET * sh,
     y |-> INITIAL_CAMERA_POSITION.y]

\* lines 113-115
CameraFor(sh) ==
    [x |-> INITIAL_CAMERA_POSITION.x - BAR_OFFSET * sh,
     y |-> INITIAL_CAMERA_POSITION.y]

\* update_animation integrating the speed the tick started with
update_animation_staleSpeed ==
    LET sc_done == ScalingDone(shift, scale, things)
        sl_done == SlowingDone(scale_speed)
        st == advance(step, sc_done, sl_done)
        speed == EffectSpeed(st, scale_speed, slow_scale_speed)
        sh == EffectShift(st, prev_shift, shift)
    IN  /\ scaling_done' = sc_done
        /\ slowing_done' = sl_done
        /\ frame' = tick_frame(frame)
        /\ ticks' = ticks + 1
        /\ step' = st
        /\ slow_scale_speed' = CaptureSlow(st, scale_speed, slow_scale_speed)
        /\ scale_speed' = speed
        /\ prev_shift' = EffectPrevShift(st, prev_shift)
        /\ shift' = sh
        /\ scale' = Integrate(scale, scale_speed)
        /\ camera' = CameraFor(sh)
        /\ UNCHANGED <<tab, things, active, editor, call>>

\* Viewport::update_animation, with Animation::tick inlined
update_animation ==
    LET sc_done == ScalingDone(shift, scale, things)
        sl_done == SlowingDone(scale_speed)
        st == advance(step, sc_done, sl_done)
        speed == EffectSpeed(st, scale_speed, slow_scale_speed)
        sh == EffectShift(st, prev_shift, shift)
    IN  /\ scaling_done' = sc_done
        /\ slowing_done' = sl_done
        /\ frame' = tick_frame(frame)
        /\ ticks' = ticks + 1
        /\ step' = st
        /\ slow_scale_speed' = CaptureSlow(st, scale_speed, slow_scale_speed)
        /\ scale_speed' = speed
        /\ prev_shift' = EffectPrevShift(st, prev_shift)
        /\ shift' = sh
        /\ scale' = Integrate(scale, speed)
        /\ camera' = CameraFor(sh)
        /\ UNCHANGED <<tab, things, active, editor, call>>

(***************************************************************************)
(* Viewport::init and State::new                                           *)
(***************************************************************************)
\* the initial scale without the padding
InitScale_noPadding(th) ==
    IF Len(th) > 0 THEN ThingScale(th[1]) ELSE 0

\* viewport.rs lines 51-54
InitScale(th) ==
    IF Len(th) > 0 THEN FAdd(ThingScale(th[1]), 0 - SCALE_PADDING) ELSE 0

\* animation.rs 67-72: Animation::default (derived)
AnimationDefault == [active |-> FALSE, frame |-> 0, step |-> AnimStepDefault]

\* Viewport::init(things)
ViewportInit(th) ==
    [animation |-> AnimationDefault,
     scale |-> InitScale(th),
     scale_speed |-> IDLE_SCALE_SPEED,
     slow_scale_speed |-> 0,
     prev_shift |-> 0,
     shift |-> 0,
     camera |-> INITIAL_CAMERA_POSITION]

\* the viewport variables hold the Viewport value vp
ViewportIs(vp) ==
    /\ active = vp.animation.active
    /\ frame = vp.animation.frame
    /\ step = vp.animation.step
    /\ scale = vp.scale
    /\ scale_speed = vp.scale_speed
    /\ slow_scale_speed = vp.slow_scale_speed
    /\ prev_shift = vp.prev_shift
    /\ shift = vp.shift
    /\ camera = vp.camera

E(s, e) == [significand |-> s, exponent |-> e]

\* item lists a session may be started with (State::load / State::new)
InitialThings == { << >>, <<E(SIG_ONE, 0), E(SIG_ONE, 1)>> }

\* State::new
Init ==
    /\ tab = "Preview"
    /\ things \in InitialThings
    /\ ViewportIs(ViewportInit(things))
    /\ scaling_done = FALSE
    /\ slowing_done = FALSE
    /\ ticks = 0
    /\ editor = ENumberEditorDefault
    /\ call = NoCall

(***************************************************************************)
(* Handlers                                                                *)
(***************************************************************************)
\* a tick task that is not tied to animation.active
TickHandler_ungated ==
    /\ frame < MaxFrame
    /\ update_animation

\* viewport.rs 244-257: the task exists only while animation.active
TickHandler ==
    /\ active
    /\ frame < MaxFrame
    /\ update_animation

\* animation.rs 106-108
Play ==
    /\ tab = "Preview"
    /\ ~active
    /\ active' = TRUE
    /\ UNCHANGED <<tab, things, frame, step, scale, scale_speed,
                   slow_scale_speed, prev_shift, shift, camera,
                   scaling_done, slowing_done, ticks, editor, call>>

\* a Pause that also drops the speed to idle
Pause_dropsSpeed ==
    /\ tab = "Preview"
    /\ active
    /\ active' = FALSE
    /\ scale_speed' = IDLE_SCALE_SPEED
    /\ UNCHANGED <<tab, things, frame, step, scale,
                   slow_scale_speed, prev_shift, shift, camera,
                   scaling_done, slowing_done, ticks, editor, call>>

\* animation.rs 102-104
Pause ==
    /\ tab = "Preview"
    /\ active
    /\ active' = FALSE
    /\ UNCHANGED <<tab, things, frame, step, scale, scale_speed,
                   slow_scale_speed, prev_shift, shift, camera,
                   scaling_done, slowing_done, ticks, editor, call>>

\* an Edit button that leaves the animation running
EditBtn_keepsRunning ==
    /\ tab = "Preview"
    /\ tab' = "Data"
    /\ UNCHANGED <<things, active, frame, step, scale, scale_speed,
                   slow_scale_speed, prev_shift, shift, camera,
                   scaling_done, slowing_done, ticks, editor, call>>

\* viewport.rs 232-235
EditBtn ==
    /\ tab = "Preview"
    /\ active' = FALSE
    /\ tab' = "Data"
    /\ UNCHANGED <<things, frame, step, scale, scale_speed,
                   slow_scale_speed, prev_shift, shift, camera,
                   scaling_done, slowing_done, ticks, editor, call>>

\* lib.rs 101-103
AddNew ==
    /\ tab = "Data"
    /\ Len(things) < MaxThings
    /\ things' = Append(things, ENumberDefault)
    /\ UNCHANGED <<tab, viewport, scaling_done, slowing_done, ticks, editor, call>>

\* lib.rs 93-97
DeleteThing ==
    /\ tab = "Data"
    /\ \E i \in 1..Len(things) :
          things' = [j \in 1..(Len(things) - 1) |->
                        IF j < i THEN things[j] ELSE things[j + 1]]
    /\ UNCHANGED <<tab, viewport, scaling_done, slowing_done, ticks, editor, call>>

\* units.rs 113-118: Ok on item i with the editor fields holding two texts
OkBtn ==
    /\ tab = "Data"
    /\ \E i \in 1..Len(things), st \in SignificandTexts, et \in ExponentTexts :
          things' = IF try_into(st, et).ok
                    THEN [things EXCEPT ![i] = try_into(st, et).val]
                    ELSE things
    /\ UNCHANGED <<tab, viewport, scaling_done, slowing_done, ticks, editor, call>>

\* lib.rs 107-111
SaveAndPreview ==
    /\ tab = "Data"
    /\ LET vp == ViewportInit(things)
       IN  /\ active' = vp.animation.active
           /\ frame' = vp.animation.frame
           /\ step' = vp.animation.step
           /\ scale' = vp.scale
           /\ scale_speed' = vp.scale_speed
           /\ slow_scale_speed' = vp.slow_scale_speed
           /\ prev_shift' = vp.prev_shift
           /\ shift' = vp.shift
           /\ camera' = vp.camera
    /\ tab' = "Preview"
    /\ ticks' = 0
    /\ UNCHANGED <<things, scaling_done, slowing_done, editor, call>>

Next ==
    \/ TickHandler
    \/ Play
    \/ Pause
    \/ EditBtn
    \/ AddNew
    \/ DeleteThing
    \/ OkBtn
    \/ SaveAndPreview

Spec == Init /\ [][Next]_vars

(***************************************************************************)
(* Animation::tick driven directly, with arbitrary predicate values        *)
(***************************************************************************)
AnimInit ==
    /\ tab = "Preview"
    /\ things = << >>
    /\ ViewportIs(ViewportInit(things))
    /\ scaling_done = FALSE
    /\ slowing_done = FALSE
    /\ ticks = 0
    /\ editor = ENumberEditorDefault
    /\ call = NoCall

\* animation.rs 78-81
AnimTick ==
    /\ frame < MaxAnimFrame
    /\ \E sc \in BOOLEAN, sl \in BOOLEAN :
          /\ scaling_done' = sc
          /\ slowing_done' = sl
          /\ frame' = tick_frame(frame)
          /\ step' = advance(step, sc, sl)
    /\ ticks' = ticks + 1
    /\ UNCHANGED <<tab, things, active, scale, scale_speed, slow_scale_speed,
                   prev_shift, shift, camera, editor, call>>

AnimNext == AnimTick

AnimSpec == AnimInit /\ [][AnimNext]_vars

(***************************************************************************)
(* The end-to-end scenario: exponents [-23, 3, 5, 17], Preview tab only    *)
(***************************************************************************)
ScenarioThings ==
    <<E(SIG_ONE, 0 - 23), E(SIG_ONE, 3), E(SIG_ONE, 5), E(SIG_ONE, 17)>>

ScenarioInit ==
    /\ tab = "Preview"
    /\ things = ScenarioThings
    /\ ViewportIs(ViewportInit(things))
    /\ scaling_done = FALSE
    /\ slowing_done = FALSE
    /\ ticks = 0
    /\ editor = ENumberEditorDefault
    /\ call = NoCall

ScenarioTick ==
    /\ active
    /\ frame < ScenarioFrames
    /\ update_animation

ScenarioNext ==
    \/ ScenarioTick
    \/ Play
    \/ Pause

ScenarioSpec == ScenarioInit /\ [][ScenarioNext]_vars

(***************************************************************************)
(* The Preview tab with the animation task scheduled: once Play has set    *)
(* active the task of Viewport::view delivers a tick every FRAME_DURATION  *)
(* for as long as active holds, and nothing here clears it.                *)
(***************************************************************************)
\* non-empty lists of non-zero items: one item, two ascending, two descending
LiveThings ==
    { <<E(SIG_ONE, 0)>>,
      <<E(SIG_ONE, 0), E(SIG_ONE, 1)>>,
      <<E(SIG_ONE, 2), E(SIG_ONE, 0 - 1)>> }

LiveInit ==
    /\ tab = "Preview"
    /\ things \in LiveThings
    /\ ViewportIs(ViewportInit(things))
    /\ scaling_done = FALSE
    /\ slowing_done = FALSE
    /\ ticks = 0
    /\ editor = ENumberEditorDefault
    /\ call = NoCall

LiveNext ==
    \/ TickHandler
    \/ Play

LiveSpec == LiveInit /\ [][LiveNext]_vars /\ WF_vars(TickHandler)

(***************************************************************************)
(* TimeScale::view on one item: Edit, typing into the two fields, Ok       *)
(***************************************************************************)
\* texts typed into the fields while editing
EditorSignificandTexts == {"1", "20", "abc", ""}
EditorExponentTexts == {"0", "1", "x"}

EditorInit ==
    /\ tab = "Data"
    /\ things \in {<<E(0, 0)>>, <<E(SIG_ONE, 1)>>}
    /\ ViewportIs(ViewportInit(<< >>))
    /\ scaling_done = FALSE
    /\ slowing_done = FALSE
    /\ ticks = 0
    /\ editor = ENumberEditorDefault
    /\ call = NoCall

\* units.rs 126-129
EditValue ==
    /\ ~editor.editing
    /\ editor' = into(things[1])
    /\ call' = [fn |-> "into", args |-> <<things[1]>>, ret |-> into(things[1])]
    /\ UNCHANGED <<tab, things, viewport, scaling_done, slowing_done, ticks>>

\* math.rs 171-173
TypeSignificand ==
    /\ editor.editing
    /\ \E text \in EditorSignificandTexts :
          editor' = [editor EXCEPT !.significand = text]
    /\ UNCHANGED <<tab, things, viewport, scaling_done, slowing_done, ticks,
                   call>>

\* math.rs 176-178
TypeExponent ==
    /\ editor.editing
    /\ \E text \in EditorExponentTexts :
          editor' = [editor EXCEPT !.exponent = text]
    /\ UNCHANGED <<tab, things, viewport, scaling_done, slowing_done, ticks,
                   call>>

\* units.rs 113-118
OkValue ==
    /\ editor.editing
    /\ LET r == try_into(editor.significand, editor.exponent)
       IN  /\ r.ok => r.val.exponent <= MaxExponent
           /\ things' = IF r.ok THEN <<r.val>> ELSE things
           /\ call' = [fn |-> "try_into",
                       args |-> <<editor.significand, editor.exponent>>,
                       ret |-> r]
    /\ editor' = [editor EXCEPT !.editing = FALSE]
    /\ UNCHANGED <<tab, viewport, scaling_done, slowing_done, ticks>>

EditorNext ==
    \/ EditValue
    \/ TypeSignificand
    \/ TypeExponent
    \/ OkValue

EditorSpec == EditorInit /\ [][EditorNext]_vars

(***************************************************************************)
(* math.rs called directly: the constructors, * and /, collapse            *)
(***************************************************************************)
\* finite f64 significands handed to normalize, new and From: the values
\* of the unit tests, and values next to powers of ten
Significands ==
    {0, 12 * SIG_ONE, 0 - 12 * SIG_ONE, Lit(12, 1000), Lit(12, 10),
     0 - Lit(12, 10), Lit(123, 100), 0 - Lit(12, 100), Lit(1, 10),
     Lit(34, 10), 0 - Lit(34, 10), SIG_ONE, 0 - SIG_ONE, 3 * SIG_ONE,
     7 * SIG_ONE, 500 * SIG_ONE, NextDown(SIG_ONE), NextDown(10 * SIG_ONE),
     NextDown(100 * SIG_ONE), NextDown(1000 * SIG_ONE), NextDown(Lit(1, 10))}

\* exponents handed to normalize, new and from_exp
Exponents == {0 - 456, 0 - 34, 0 - 6, 0, 34, 2345}

\* significands and exponents of the operands of * and /
OperandSignificands ==
    {Lit(123, 100), 0 - Lit(12, 100), Lit(12, 10), Lit(1, 10), SIG_ONE,
     0 - SIG_ONE, 3 * SIG_ONE, 7 * SIG_ONE, Lit(34, 10),
     NextDown(10 * SIG_ONE)}
OperandExponents == {0 - 456, 0 - 34, 0, 78, 2345}

\* normalized non-zero operands, built as the tests build them
Operands == {from_pair(<<s, e>>) : s \in OperandSignificands,
                                   e \in OperandExponents}

\* the numbers collapse is applied to
CollapseSignificands ==
    {0, SIG_ONE, Lit(123, 100), Lit(34, 10), 0 - Lit(34, 10),
     NextDown(10 * SIG_ONE)}
CollapseExponents == {0 - 400, 0 - 76, 0, 2, 67, 307, 308, 309}

\* the items, camera scales and limits to_scale is applied to
ToScaleExponents == {0 - 76, 0, 2, 67, 309}
ToScaleScales ==
    {Finite(0 - 285), Finite(0), Finite(50), Finite(6415), PosInf, NegInf, NaN}
\* Viewport::MAX_HEIGHT = 1000., and other limits
MAX_HEIGHT == F64(1000, 0)
ToScaleMaxes ==
    {MAX_HEIGHT, F64(0, 0), F64(0 - 5, 0), [kind |-> "inf", m |-> 1, x |-> 0],
     [kind |-> "inf", m |-> 0 - 1, x |-> 0], [kind |-> "nan", m |-> 0, x |-> 0]}

\* the durations formatted: those of the unit test of units.rs, the
\* bounds of the ranges and their neighbours, and values beyond an f64
Durations ==
    {E(0, 0), E(DEC_ONE, 0), E(860000000, 0 - 4), E(0 - 5 * DEC_ONE, 0),
     E(590000000, 1), E(600000000, 1), E(600000001, 1), E(610000000, 1),
     E(500000000, 2), E(359900000, 3), E(360000000, 3), E(360100000, 3),
     E(362000000, 3), E(552000000, 3), E(864000000, 4), E(864010000, 4),
     E(604800000, 5), E(262656000, 6), E(315569520, 7), E(315569530, 7),
     E(299791044, 8), E(284012568, 13), E(315569519, 13), E(315569520, 13),
     E(157784760, 16), E(315569519, 16), E(315569520, 16), E(788923800, 16),
     E(315569519, 19), E(315569520, 19), E(315569520, 20),
     E(315569519, 22), E(315569520, 22), E(315569520, 168),
     E(315569520, 32007), E(340000000, 309), E(0 - 340000000, 309),
     E(123000000, 0 - 456), E(539000000, 0 - 44), E(0 - DEC_ONE, 20)}

\* the arguments a call is made with
Takes(takes, args) ==
    call = [fn |-> "none", takes |-> takes, args |-> args, ret |-> << >>]

MathInit ==
    /\ tab = "Data"
    /\ things = << >>
    /\ ViewportIs(ViewportInit(things))
    /\ scaling_done = FALSE
    /\ slowing_done = FALSE
    /\ ticks = 0
    /\ editor = ENumberEditorDefault
    /\ \/ \E sg \in Significands, e \in Exponents :
              Takes("f64, i32", <<sg, e>>)
       \/ \E a \in Operands, b \in Operands :
              Takes("ENumber, ENumber", <<a, b>>)
       \/ \E sg \in CollapseSignificands, e \in CollapseExponents :
              Takes("ENumber", <<new(sg, e)>>)
       \/ \E sg \in CollapseSignificands, e \in ToScaleExponents,
             sc \in ToScaleScales, mx \in ToScaleMaxes :
              Takes("ENumber, f64, f64", <<new(sg, e), sc, mx>>)
       \/ \E d \in Durations : Takes("TimeScale", <<d>>)

\* the function fn returns ret for the arguments drawn
Returns(fn, ret) ==
    /\ call' = [call EXCEPT !.fn = fn, !.ret = ret]
    /\ UNCHANGED <<tab, things, viewport, scaling_done, slowing_done, ticks,
                   editor>>

CallNormalize ==
    /\ call.fn = "none"
    /\ call.takes = "f64, i32"
    /\ Returns("normalize", normalize(call.args[1], call.args[2]))

CallNew ==
    /\ call.fn = "none"
    /\ call.takes = "f64, i32"
    /\ Returns("new", new(call.args[1], call.args[2]))

CallFromExp ==
    /\ call.fn = "none"
    /\ call.takes = "f64, i32"
    /\ Returns("from_exp", from_exp(call.args[2]))

CallFrom ==
    /\ call.fn = "none"
    /\ call.takes = "f64, i32"
    /\ Returns("from", from(call.args[1]))

CallMul ==
    /\ call.fn = "none"
    /\ call.takes = "ENumber, ENumber"
    /\ Returns("mul", mul(call.args[1], call.args[2]))

CallDiv ==
    /\ call.fn = "none"
    /\ call.takes = "ENumber, ENumber"
    /\ Returns("div", div(call.args[1], call.args[2]))

\* (a * b) / b: the division applied to the product just returned
CallDivBack ==
    /\ call.fn = "mul"
    /\ Returns("mul_div", div(call.ret, call.args[2]))

CallCollapse ==
    /\ call.fn = "none"
    /\ call.takes = "ENumber"
    /\ Returns("collapse", collapse(call.args[1]))

CallToScale ==
    /\ call.fn = "none"
    /\ call.takes = "ENumber, f64, f64"
    /\ Returns("to_scale", to_scale(call.args[1], call.args[2], call.args[3]))

CallFmt ==
    /\ call.fn = "none"
    /\ call.takes = "TimeScale"
    /\ Returns("fmt", fmt(call.args[1]))

MathNext ==
    \/ CallNormalize
    \/ CallNew
    \/ CallFromExp
    \/ CallFrom
    \/ CallMul
    \/ CallDiv
    \/ CallDivBack
    \/ CallCollapse
    \/ CallToScale
    \/ CallFmt

MathSpec == MathInit /\ [][MathNext]_vars

(***************************************************************************)
(* Properties                                                              *)
(***************************************************************************)
\* the successor of each AnimStep variant in the cycle
CycleSucc(kind) ==
    CASE kind = "Idle" -> "Scaling"
      [] kind = "Scaling" -> "Slowing"
      [] kind = "Slowing" -> "Pausing"
      [] kind = "Pausing" -> "Shifting"
      [] kind = "Shifting" -> "Idle"

\* C1: whatever the predicates, a tick that changes the AnimStep variant
\* changes it to its immediate successor in the cycle
\* Idle -> Scaling -> Slowing -> Pausing -> Shifting -> Idle.
C1_CyclicOrder ==
    [][step'.kind # step.kind => step'.kind = CycleSucc(step.kind)]_vars

\* a whole cycle has been walked: Shifting entered again from Pausing
C1_Witness == step = Shifting(SHIFTING_FRAMES) /\ frame > 0

\* C2: in Scaling a tick moves to Slowing(SLOWING_FRAMES) exactly when
\* scaling_done is true on that tick, and otherwise leaves the step Scaling,
\* whatever slowing_done is.
C2_ScalingWaits ==
    [][step.kind = "Scaling" /\ frame' = frame + 1 =>
          /\ (step' = [kind |-> "Slowing", n |-> SLOWING_FRAMES]) <=> scaling_done'
          /\ ~scaling_done' => step' = step]_vars

\* Slowing entered after Scaling was held for several ticks
C2_Witness ==
    /\ step = Slowing(SLOWING_FRAMES)
    /\ scaling_done
    /\ frame > SHIFTING_FRAMES + IDLE_FRAMES + 10

\* C3: a tick on Idle(n), Pausing(n) or Shifting(n) gives the same variant
\* with n - 1 when n > 0 and the next variant with its nominal frame count
\* when n = 0, independently of the two predicates.
C3_Countdown ==
    [][frame' = frame + 1 /\ step.kind \in {"Idle", "Pausing", "Shifting"} =>
          step' = IF step.n > 0
                  THEN [kind |-> step.kind, n |-> step.n - 1]
                  ELSE CASE step.kind = "Idle" ->
                                [kind |-> "Scaling", n |-> 0]
                         [] step.kind = "Pausing" ->
                                [kind |-> "Shifting", n |-> SHIFTING_FRAMES]
                         [] step.kind = "Shifting" ->
                                [kind |-> "Idle", n |-> IDLE_FRAMES]]_vars

\* Idle entered from Shifting(0) and counted down once
C3_Witness == step = Idle(IDLE_FRAMES - 1)

\* C4: a tick on Slowing(n) gives Pausing(PAUSING_FRAMES) if slowing_done
\* is true or n = 0 and Slowing(n - 1) otherwise; scaling_done plays no part.
C4_Slowing ==
    [][frame' = frame + 1 /\ step.kind = "Slowing" =>
          step' = IF slowing_done' \/ step.n = 0
                  THEN [kind |-> "Pausing", n |-> PAUSING_FRAMES]
                  ELSE [kind |-> "Slowing", n |-> step.n - 1]]_vars

\* Slowing counted down on ticks whose scaling_done was true
C4_Witness == step = Slowing(2) /\ scaling_done /\ ~slowing_done

\* C5: a Viewport that has not been ticked (from State::new or from
\* Save and preview) is in Shifting with the full countdown, 125.
C5_InitialStep ==
    frame = 0 => step = [kind |-> "Shifting", n |-> 125]

\* a Viewport built by Save and preview from a list edited in the Data tab
C5_Witness ==
    /\ frame = 0
    /\ tab = "Preview"
    /\ Len(things) = 1
    /\ step.kind = "Shifting"

\* C6: from Shifting(F): Shifting for the first F ticks, Idle(I) after
\* exactly F + 1 ticks, Scaling after exactly I + 1 more, and from then on
\* Scaling until the first tick with scaling_done, which gives Slowing(S).
C6_Schedule ==
    /\ [](/\ frame <= SHIFTING_FRAMES =>
                step = [kind |-> "Shifting", n |-> SHIFTING_FRAMES - frame]
          /\ (frame > SHIFTING_FRAMES /\ frame <= SHIFTING_FRAMES + 1 + IDLE_FRAMES) =>
                step = [kind |-> "Idle",
                        n |-> IDLE_FRAMES - (frame - SHIFTING_FRAMES - 1)]
          /\ frame = SHIFTING_FRAMES + IDLE_FRAMES + 2 =>
                step = [kind |-> "Scaling", n |-> 0])
    /\ [][(step.kind = "Scaling" /\ frame' = frame + 1) =>
             step' = IF scaling_done'
                     THEN [kind |-> "Slowing", n |-> SLOWING_FRAMES]
                     ELSE [kind |-> "Scaling", n |-> 0]]_vars

\* the first Scaling phase left after six ticks of waiting
C6_Witness ==
    /\ step = Slowing(SLOWING_FRAMES)
    /\ frame = SHIFTING_FRAMES + IDLE_FRAMES + 8

\* scale has reached item i's threshold, exponent[i] - padding
Reached(i) == ThingScale(things[i]) - SCALE_PADDING <= scale

\* C7 as stated: one completed shift per item threshold crossed, in item
\* order: the i-th completed shift has the i-th threshold behind it.
C7_OneShiftPerThreshold ==
    \A i \in 1..Len(things) : prev_shift >= i * SHIFT_UNIT => Reached(i)

\* C7 as the code has it: the shift from 0 to 1 waits for nothing, the
\* shift from i to i + 1 is completed only once scale has reached the
\* threshold of item i (1-based), every completed shift adds exactly 1, and
\* after each completed shift but the first the shifts counted are one more
\* than the thresholds reached.
C7_ShiftAfterThreshold ==
    /\ [](/\ \A i \in 1..Len(things) :
                prev_shift >= (i + 1) * SHIFT_UNIT => Reached(i)
          /\ (step.kind = "Idle" /\ prev_shift >= 2 * SHIFT_UNIT) =>
                prev_shift =
                  (1 + Cardinality({i \in 1..Len(things) : Reached(i)}))
                  * SHIFT_UNIT)
    /\ [][prev_shift' \in {prev_shift, prev_shift + SHIFT_UNIT}]_vars

\* all four thresholds crossed and the fifth shift completed
C7_Witness ==
    /\ prev_shift = 5 * SHIFT_UNIT
    /\ \A i \in 1..Len(things) : Reached(i)

\* C8: no tick decreases scale, in any phase.
C8_ScaleMonotone ==
    [][frame' = frame + 1 => scale' >= scale]_vars

\* a finite scale that ticks have moved, in the phase that eases the speed
C8_Witness ==
    /\ step.kind = "Slowing"
    /\ scale # NEG_INFINITY
    /\ scale > InitScale(things)

\* the Viewport fields C9 names
C9_Fields ==
    <<frame, step, scale, scale_speed, slow_scale_speed, shift, prev_shift,
      camera>>

\* C9 as stated: ticks only while active, and nothing changes the fields
\* of a Viewport that has run (frame > 0) between active becoming false
\* and becoming true again.
C9_FrozenWhileInactive ==
    [][/\ frame' = frame + 1 => active
       /\ (frame > 0 /\ ~active /\ ~active') => UNCHANGED C9_Fields]_vars

\* C9 as the code has it: ticks only while active, and while active stays
\* false only Save and preview (Data -> Preview), which replaces the
\* Viewport by Viewport::init of the list, changes the fields.
C9_FrozenUnlessReplaced ==
    [][/\ frame' = frame + 1 => active
       /\ (~active /\ ~active' /\ ~(tab = "Data" /\ tab' = "Preview")) =>
             UNCHANGED C9_Fields]_vars

\* a Viewport paused in mid-run and taken to the Data tab
C9_Witness == ~active /\ frame > 0 /\ tab = "Data" /\ step.kind = "Scaling"

\* C11: frame is the number of ticks applied to the Animation since it was
\* constructed: every tick adds exactly 1, every other operation on the
\* same Animation leaves frame alone, and frame never decreases while the
\* Animation exists (Save and preview constructs a new one, at frame 0).
C11_FrameCountsTicks ==
    /\ [](frame = ticks)
    /\ [][/\ ticks' = ticks + 1 => frame' = frame + 1
          /\ ticks' = ticks => frame' = frame
          /\ ~(tab = "Data" /\ tab' = "Preview") => frame' >= frame]_vars

\* a run of ticks, paused, with the counter holding their number
C11_Witness ==
    /\ ~active
    /\ tab = "Preview"
    /\ ticks = SHIFTING_FRAMES + IDLE_FRAMES
    /\ frame = SHIFTING_FRAMES + IDLE_FRAMES

\* C12: a tick that leaves the Shifting countdown positive sets shift to a
\* value in [prev_shift, prev_shift + 1] that is not below the shift before
\* the tick and leaves prev_shift alone; the tick that brings the countdown
\* to 0 sets shift to exactly prev_shift + 1 and adds exactly 1 to
\* prev_shift.
C12_ShiftInterpolation ==
    [][frame' = frame + 1 /\ step'.kind = "Shifting" =>
          IF step'.n > 0
          THEN /\ prev_shift' = prev_shift
               /\ shift' >= prev_shift
               /\ shift' <= prev_shift + SHIFT_UNIT
               /\ shift' >= shift
          ELSE /\ shift' = prev_shift + SHIFT_UNIT
               /\ prev_shift' = prev_shift + SHIFT_UNIT]_vars

\* the second shift has just completed
C12_Witness ==
    /\ step = Shifting(0)
    /\ prev_shift = 2 * SHIFT_UNIT
    /\ shift = prev_shift

\* C13: the tick that enters Slowing, and no other tick, sets
\* slow_scale_speed, to min(scale_speed, INITIAL_SLOW_SCALE_SPEED); every
\* tick that leaves the Slowing countdown positive leaves scale_speed
\* between the idle baseline and slow_scale_speed and not above the speed
\* before the tick; the tick that brings the countdown to 0 leaves
\* scale_speed at the idle baseline.
C13_SlowingSpeed ==
    [][frame' = frame + 1 =>
          /\ slow_scale_speed' =
                IF step.kind # "Slowing" /\ step'.kind = "Slowing"
                THEN IF scale_speed <= 3 * SPEED_UNIT
                     THEN scale_speed ELSE 3 * SPEED_UNIT
                ELSE slow_scale_speed
          /\ (step'.kind = "Slowing" /\ step'.n > 0) =>
                /\ IDLE_SCALE_SPEED <= scale_speed'
                /\ scale_speed' <= slow_scale_speed'
                /\ scale_speed' <= scale_speed
          /\ (step'.kind = "Slowing" /\ step'.n = 0) =>
                scale_speed' = IDLE_SCALE_SPEED]_vars

\* half way down a Slowing phase entered above the cap
C13_Witness ==
    /\ step = Slowing(3)
    /\ slow_scale_speed = INITIAL_SLOW_SCALE_SPEED
    /\ scale_speed < slow_scale_speed
    /\ scale_speed > IDLE_SCALE_SPEED

\* C14: in the state Viewport::init returns and after every tick the camera
\* is the translation (0, 350) - (140 * shift, 0): a function of the current
\* shift alone, also while shift is between two whole numbers.
C14_CameraFollowsShift ==
    camera = [x |-> 0 - (40 + 100) * shift, y |-> 350 * SHIFT_UNIT]

\* the camera part of the way through the second shift
C14_Witness ==
    /\ step.kind = "Shifting"
    /\ prev_shift = SHIFT_UNIT
    /\ shift > prev_shift
    /\ shift < prev_shift + SHIFT_UNIT
    /\ camera.x < 0 - BAR_OFFSET * prev_shift

\* C15: the alpha of item i (0-based) is 0 while shift <= i and 1 once
\* shift >= i + 1, so item i is fully opaque whenever prev_shift >= i + 1,
\* and along a run of a Viewport no item's alpha ever decreases.
C15_AlphaMonotone ==
    /\ [](\A i \in 0..(Len(things) - 1) :
              /\ shift <= i * SHIFT_UNIT => alpha(i, shift) = 0
              /\ shift >= (i + 1) * SHIFT_UNIT =>
                    alpha(i, shift) = 1000 * 1000 * 1000
              /\ prev_shift >= (i + 1) * SHIFT_UNIT =>
                    alpha(i, shift) = 1000 * 1000 * 1000)
    /\ [][\A i \in 0..(Len(things) - 1) :
              alpha(i, shift') >= alpha(i, shift)]_vars

\* the first item opaque, the second fading in, the third still invisible
C15_Witness ==
    /\ alpha(0, shift) = ALPHA_ONE
    /\ alpha(1, shift) > 0
    /\ alpha(1, shift) < ALPHA_ONE
    /\ alpha(2, shift) = 0

\* the Viewport is as Viewport::init builds it from the current item list
C16_Fresh ==
    /\ scale = IF Len(things) = 0 THEN 0
               ELSE IF things[1].significand = 0 THEN NEG_INFINITY
               ELSE ThingScale(things[1]) - SCALE_PADDING
    /\ shift = 0
    /\ prev_shift = 0
    /\ scale_speed = IDLE_SCALE_SPEED
    /\ slow_scale_speed = 0
    /\ frame = 0
    /\ ~active

\* C16: Viewport::init (State::new, Save and preview) gives scale = the
\* first item's log10 magnitude minus SCALE_PADDING, or 0 for an empty list,
\* shift = prev_shift = 0, scale_speed = IDLE_SCALE_SPEED,
\* slow_scale_speed = 0, frame = 0 and active = false; and a Viewport at
\* frame 0 that is not active is not ticked, and becomes active only by a
\* step taken in the Preview tab (Play).
C16_InitState ==
    /\ C16_Fresh
    /\ [][/\ (tab = "Data" /\ tab' = "Preview") => C16_Fresh'
          /\ (frame = 0 /\ ~active) =>
                /\ frame' = 0
                /\ active' => (tab = "Preview" /\ tab' = "Preview")]_vars

\* Save and preview on a list whose first item was edited to 1e1
C16_Witness ==
    /\ tab = "Preview"
    /\ frame = 0
    /\ ~active
    /\ Len(things) > 0
    /\ things[1] = E(SIG_ONE, 1)
    /\ scale = SCALE_UNIT - SCALE_PADDING

\* C17: Ok on an editor whose significand text or exponent text does not
\* parse leaves the committed value exactly as it was and leaves edit mode;
\* the committed value changes only by an Ok whose two texts both parse.
C17_RejectsBadEdit ==
    [][/\ (call.fn = "into" /\ call'.fn = "try_into") =>
             /\ ~editor'.editing
             /\ (~ParseSignificand(editor.significand).ok
                 \/ ~ParseExponent(editor.exponent).ok) => things' = things
       /\ things' # things =>
             /\ call.fn = "into"
             /\ call'.fn = "try_into"
             /\ ParseSignificand(editor.significand).ok
             /\ ParseExponent(editor.exponent).ok]_vars

\* Ok pressed with a good significand and a bad exponent, after an edit
\* that was committed
C17_Witness ==
    /\ call.fn = "try_into"
    /\ call.args = <<"20", "x">>
    /\ ~editor.editing
    /\ things[1] = E(2 * SIG_ONE, 2)

\* the invariant of a Magnitude: both fields zero, or 1 <= |significand| < 10
IsNormalized(n) ==
    \/ n.significand = 0 /\ n.exponent = 0
    \/ SIG_ONE <= Abs(n.significand) /\ Abs(n.significand) < 10 * SIG_ONE

\* C18: normalize(s, e) returns {0, 0} when s = 0 and otherwise a pair with
\* 1 <= |significand| < 10 whose exponent is e plus the number of decimal
\* places the significand was moved; every Magnitude returned by new,
\* from_exp, From, * and / satisfies the invariant.
C18_NormalizedResult ==
    /\ call.fn \in {"normalize", "new", "from", "from_exp", "mul", "div"} =>
          IsNormalized(call.ret)
    /\ (call.fn = "normalize" /\ call.args[1] = 0) =>
          call.ret = [significand |-> 0, exponent |-> 0]

\* one unit in the last place of the f64 a # 0
Ulp(a) == Shift(1, BitLen(Abs(a)) - MANTISSA_DIGITS)

C20_CollapsePresence ==
    call.fn = "collapse" =>
        /\ call.ret.is_some <=>
              \/ call.args[1].significand = 0
              \/ call.args[1].exponent < 308
              \/ /\ call.args[1].exponent = 308
                 /\ Abs(call.args[1].significand) <= Lit(1797, 1000)
        /\ call.ret.is_some => call.ret.value.kind \notin {"inf", "nan"}

\* 3.4e309 collapses to nothing: the product is infinite
C20_Witness ==
    /\ call.fn = "collapse"
    /\ call.args[1] = [significand |-> Lit(34, 10), exponent |-> 309]
    /\ ~call.ret.is_some
    /\ call.ret.value.kind = "inf"

RECURSIVE SplitFrom(_, _, _, _)
\* the words of text from position i on; cur is the word being read
SplitFrom(text, i, cur, acc) ==
    IF i > Len(text) THEN Append(acc, cur)
    ELSE IF SubSeq(text, i, i) = " "
    THEN SplitFrom(text, i + 1, "", Append(acc, cur))
    ELSE SplitFrom(text, i + 1, cur \o SubSeq(text, i, i), acc)

\* the words of a formatted Duration, split at the spaces
Words(text) == SplitFrom(text, 1, "", << >>)

\* C22: with v the collapsed number of seconds, v <= 60 is written in
\* seconds alone; 60 < v <= 3600 in minutes, followed by seconds unless
\* v mod 60 = 0; 3600 < v <= 86400 in hours, followed by minutes unless
\* v mod 3600 = 0; 86400 < v <= 31556952 in days; larger v in y, My, Gy or
\* Ty for years < 1e6, < 1e9, < 1e12, < 1e15.  60, 3600, 86400 and
\* 31556952 seconds are "60 s", "60 m", "24 h" and "365.24 d".
C22_UnitByRange ==
    (call.fn = "fmt" /\ DecIsFinite(call.args[1])) =>
        LET sg == call.args[1].significand
            t == call.args[1].exponent - 8
            whole == DecWhole(Abs(sg), t)
            exact == DecFrac(Abs(sg), t) = 0
            AtMost(b) == sg <= 0 \/ whole < b \/ (whole = b /\ exact)
            YearsBelow(digits) ==
                sg <= 0 \/ DecWhole(Abs(sg), t - digits) < 31556952
            words == Words(call.ret)
        IN  /\ AtMost(60) => Len(words) = 2 /\ words[2] = "s"
            /\ (~AtMost(60) /\ AtMost(3600)) =>
                  /\ words[2] = "m"
                  /\ words[1] = ToString(whole \div 60)
                  /\ IF exact /\ whole % 60 = 0 THEN Len(words) = 2
                     ELSE Len(words) = 4 /\ words[4] = "s"
            /\ (~AtMost(3600) /\ AtMost(86400)) =>
                  /\ words[2] = "h"
                  /\ words[1] = ToString(whole \div 3600)
                  /\ IF exact /\ whole % 3600 = 0 THEN Len(words) = 2
                     ELSE Len(words) = 4 /\ words[4] = "m"
            /\ (~AtMost(86400) /\ AtMost(31556952)) =>
                  Len(words) = 2 /\ words[2] = "d"
            /\ (~AtMost(31556952) /\ YearsBelow(15)) =>
                  /\ Len(words) = 2
                  /\ words[2] = IF YearsBelow(6) THEN "y"
                                ELSE IF YearsBelow(9) THEN "My"
                                ELSE IF YearsBelow(12) THEN "Gy"
                                ELSE "Ty"
            /\ call.args[1] = E(600000000, 1) => call.ret = "60 s"
            /\ call.args[1] = E(360000000, 3) => call.ret = "60 m"
            /\ call.args[1] = E(864000000, 4) => call.ret = "24 h"
            /\ call.args[1] = E(315569520, 7) => call.ret = "365.24 d"
            /\ call.args[1] = E(315569520, 13) => call.ret = "1 My"
            /\ call.args[1] = E(315569519, 13) => words[2] = "y"

\* one Julian year, the last value written in days
C22_Witness ==
    /\ call.fn = "fmt"
    /\ call.args[1] = E(315569520, 7)
    /\ call.ret = "365.24 d"

\* C23: a Duration whose collapse() is absent, or that is at least 1e15
\* years, is written in scientific notation, <significand>e<exponent>: in
\* years when the exponent is positive, in seconds otherwise; and every
\* Duration is written, without a failure, as one number and a unit, or two
\* of each, ending in one of the unit suffixes.
C23_ScientificFallback ==
    call.fn = "fmt" =>
        LET n == call.args[1]
            words == Words(call.ret)
        IN  /\ Len(words) \in {2, 4}
            /\ words[Len(words)] \in {"s", "m", "h", "d", "y", "My", "Gy", "Ty"}
            /\ words[1] # "panicked:"
            /\ (\/ ~DecIsFinite(n)
                \/ /\ n.significand > 0
                   /\ DecWhole(n.significand, n.exponent - 8 - 15)
                         >= 31556952) =>
                  /\ Len(words) = 2
                  /\ words[2] = IF n.exponent > 0 THEN "y" ELSE "s"
                  /\ \E i \in 2..(Len(words[1]) - 1) :
                        SubSeq(words[1], i, i) = "e"
            /\ n = E(315569520, 168) => call.ret = "1e161 y"
            /\ n = E(315569520, 22) => call.ret = "1e15 y"
            /\ n = E(315569519, 22) => words[2] = "Ty"

\* 3.4e309 seconds: no f64 holds it, and it is written in years
C23_Witness ==
    /\ call.fn = "fmt"
    /\ call.args[1] = E(340000000, 309)
    /\ call.ret = "1.08e302 y"

\* C24: the scaling_done of a tick is computed from the shift and the scale
\* before the tick: true if floor(shift) <= 0; otherwise, with the item at
\* 0-based index floor(shift) - 1, true exactly when that item exists and
\* its log10 magnitude less scale is <= 2.85, so false when the index is
\* past the end of the list.  (A zero item has magnitude -infinity: the
\* difference is -infinity for a finite scale, NaN for a scale of
\* -infinity; a finite item less a scale of -infinity is +infinity.)
C24_ScalingDone ==
    [][frame' = frame + 1 =>
          LET i == shift \div SHIFT_UNIT
          IN  scaling_done' =
                IF i <= 0 THEN TRUE
                ELSE IF i - 1 >= Len(things) THEN FALSE
                ELSE IF things[i].significand = 0 THEN scale # NEG_INFINITY
                ELSE IF scale = NEG_INFINITY THEN FALSE
                ELSE things[i].exponent * SCALE_UNIT
                       + Log10Abs(things[i].significand) - scale
                     <= 285 * (SCALE_UNIT \div 100)]_vars

\* both items of a list of two are behind, the third shift is complete,
\* and Scaling waits for an item that does not exist
C24_Witness ==
    /\ Len(things) = 2
    /\ shift = 3 * SHIFT_UNIT
    /\ step.kind = "Scaling"
    /\ ~scaling_done

\* C25: every tick that leaves the step in Scaling, the tick that enters
\* Scaling included, adds exactly SCALE_ACCELERATION / FPS to scale_speed;
\* the entering tick leaves IDLE_SCALE_SPEED + SCALE_ACCELERATION / FPS, and
\* after k consecutive ticks of one Scaling phase scale_speed is
\* IDLE_SCALE_SPEED + k * SCALE_ACCELERATION / FPS, with no cap.  The k of
\* the first Scaling phase is read off the frame counter: that phase is
\* entered by tick SHIFTING_FRAMES + IDLE_FRAMES + 2.
C25_ScalingAccelerates ==
    /\ [][frame' = frame + 1 /\ step'.kind = "Scaling" =>
             /\ scale_speed' =
                    scale_speed + (SCALE_ACCELERATION * FRAME_DURATION) \div 1000
             /\ step.kind # "Scaling" =>
                    scale_speed' = IDLE_SCALE_SPEED
                        + (SCALE_ACCELERATION * FRAME_DURATION) \div 1000]_vars
    /\ [](step.kind = "Scaling" /\ prev_shift = SHIFT_UNIT =>
             scale_speed = IDLE_SCALE_SPEED
                 + (frame - (SHIFTING_FRAMES + IDLE_FRAMES + 1))
                   * ((SCALE_ACCELERATION * FRAME_DURATION) \div 1000))

\* a Scaling phase that has taken the speed past the largest speed a
\* Slowing phase starts from
C25_Witness ==
    /\ step.kind = "Scaling"
    /\ prev_shift = SHIFT_UNIT
    /\ frame > SHIFTING_FRAMES + IDLE_FRAMES + 2
    /\ scale_speed > INITIAL_SLOW_SCALE_SPEED

\* C26: in every reachable state whose step is not Scaling or Slowing,
\* scale_speed = IDLE_SCALE_SPEED: Idle and Pausing ticks leave it there,
\* Shifting is entered by a tick only from Pausing and its ticks do not
\* write scale_speed.
C26_IdleSpeedOutsideScaling ==
    /\ [](step.kind \notin {"Scaling", "Slowing"} =>
             scale_speed = (25 * SPEED_UNIT) \div 1000)
    /\ [][frame' = frame + 1 /\ step'.kind = "Shifting" =>
             /\ step.kind \in {"Pausing", "Shifting"}
             /\ scale_speed' = scale_speed]_vars

\* a Shifting phase entered from Pausing, after a Scaling phase and a
\* Slowing phase have moved the speed
C26_Witness ==
    /\ step.kind = "Shifting"
    /\ step.n < SHIFTING_FRAMES
    /\ prev_shift = SHIFT_UNIT
    /\ slow_scale_speed > IDLE_SCALE_SPEED
    /\ scale_speed = IDLE_SCALE_SPEED

\* C27: every tick, in every phase, adds to scale exactly the scale_speed
\* the same tick leaves behind (the speed after the step transition and the
\* per-state effect), divided by FPS.  One unit of scale_speed is
\* 1 / SPEED_UNIT per second and one unit of scale is 1 / SCALE_UNIT with
\* SCALE_UNIT = FPS * SPEED_UNIT, so the quotient is scale_speed' units of
\* scale; a scale of -infinity stays -infinity.
C27_Integration ==
    [][frame' = frame + 1 =>
          scale' = IF scale = NEG_INFINITY THEN NEG_INFINITY
                   ELSE scale + scale_speed']_vars

\* the second tick of a Pausing phase has moved a finite scale
C27_Witness ==
    /\ step = Pausing(PAUSING_FRAMES - 1)
    /\ scale # NEG_INFINITY
    /\ scale > InitScale(things)
    /\ scale_speed = IDLE_SCALE_SPEED

C29_StuckPastTheEnd ==
    /\ [](tab = "Preview" => prev_shift <= (Len(things) + 1) * SHIFT_UNIT)
    /\ [][(/\ tab = "Preview"
           /\ step.kind = "Scaling"
           /\ shift \div SHIFT_UNIT = Len(things) + 1
           /\ frame' = frame + 1) =>
             /\ ~scaling_done'
             /\ step'.kind = "Scaling"
             /\ shift' = shift
             /\ prev_shift' = prev_shift
             /\ scale_speed' > scale_speed
             /\ scale_speed' - scale_speed =
                    (SCALE_ACCELERATION * FRAME_DURATION) \div 1000]_vars

\* a list of one item, two shifts complete, and a Scaling phase that has
\* run for more than 200 ticks
C29_Witness ==
    /\ tab = "Preview"
    /\ Len(things) = 1
    /\ prev_shift = 2 * SHIFT_UNIT
    /\ step.kind = "Scaling"
    /\ ~scaling_done
    /\ scale_speed > IDLE_SCALE_SPEED + 200 * AccelPerTick

\* C30: driven by update_animation, Slowing is never left early: it is
\* entered as Slowing(SLOWING_FRAMES), every tick that leaves the countdown
\* positive leaves scale_speed > IDLE_SCALE_SPEED, so the slowing_done of a
\* tick on Slowing(n), n > 0, is false and the tick gives Slowing(n - 1);
\* Pausing follows only Slowing(0), SLOWING_FRAMES + 1 ticks after entry.
C30_SlowingRunsFull ==
    [][frame' = frame + 1 =>
          /\ (step.kind # "Slowing" /\ step'.kind = "Slowing") =>
                step'.n = SLOWING_FRAMES
          /\ (step'.kind = "Slowing" /\ step'.n > 0) =>
                scale_speed' > (25 * SPEED_UNIT) \div 1000
          /\ (step.kind = "Slowing" /\ step.n > 0) =>
                /\ ~slowing_done'
                /\ step' = [kind |-> "Slowing", n |-> step.n - 1]
          /\ (step.kind = "Slowing" /\ step'.kind # "Slowing") =>
                /\ step.n = 0
                /\ step' = [kind |-> "Pausing", n |-> PAUSING_FRAMES]]_vars

\* the last positive countdown of a Slowing phase entered after a single
\* tick of Scaling, the smallest speed a Slowing phase can start from
C30_Witness ==
    /\ step = Slowing(1)
    /\ slow_scale_speed = IDLE_SCALE_SPEED + AccelPerTick
    /\ scale_speed > IDLE_SCALE_SPEED
    /\ ~slowing_done

\* C31: prev_shift is a non-negative whole number, shift lies between
\* prev_shift and prev_shift + 1, and equals prev_shift outside Shifting;
\* no tick decreases shift; a tick changes prev_shift only by adding 1, and
\* exactly the ticks that give Shifting(0), one per Shifting phase, do so.
C31_ShiftPointer ==
    /\ [](/\ prev_shift >= 0
          /\ prev_shift % SHIFT_UNIT = 0
          /\ prev_shift <= shift
          /\ shift <= prev_shift + SHIFT_UNIT
          /\ step.kind \in {"Idle", "Scaling", "Slowing", "Pausing"} =>
                shift = prev_shift)
    /\ [][frame' = frame + 1 =>
             /\ shift' >= shift
             /\ prev_shift' = IF step' = [kind |-> "Shifting", n |-> 0]
                              THEN prev_shift + SHIFT_UNIT
                              ELSE prev_shift]_vars

\* the middle of the second Shifting phase: shift strictly between 1 and 2
C31_Witness ==
    /\ step.kind = "Shifting"
    /\ prev_shift = SHIFT_UNIT
    /\ prev_shift < shift
    /\ shift < prev_shift + SHIFT_UNIT

\* the Viewport fields C32 names, as one value
C32_Fields ==
    [step |-> step, frame |-> frame, scale |-> scale,
     scale_speed |-> scale_speed, slow_scale_speed |-> slow_scale_speed,
     shift |-> shift, prev_shift |-> prev_shift, camera |-> camera]

\* one tick applied to the fields v for the list th, with no pause or play
C32_Ticked(v, th) ==
    LET st == advance(v.step, ScalingDone(v.shift, v.scale, th),
                      SlowingDone(v.scale_speed))
        speed == EffectSpeed(st, v.scale_speed, v.slow_scale_speed)
        sh == EffectShift(st, v.prev_shift, v.shift)
    IN  [step |-> st, frame |-> v.frame + 1,
         scale |-> Integrate(v.scale, speed),
         scale_speed |-> speed,
         slow_scale_speed |-> CaptureSlow(st, v.scale_speed, v.slow_scale_speed),
         shift |-> sh,
         prev_shift |-> EffectPrevShift(st, v.prev_shift),
         camera |-> CameraFor(sh)]

\* the run seq extended by n more uninterrupted ticks, half of them at a
\* time
RECURSIVE C32_Extend(_, _, _)
C32_Extend(seq, th, n) ==
    IF Len(seq) = 0 \/ n = 0 THEN seq
    ELSE IF n = 1 THEN Append(seq, C32_Ticked(seq[Len(seq)], th))
    ELSE C32_Extend(C32_Extend(seq, th, n \div 2), th, n - n \div 2)

\* the fields after 0, 1, ..., k uninterrupted ticks from Viewport::init(th)
C32_Run(th, k) ==
    LET vp == ViewportInit(th)
    IN  C32_Extend(<< [step |-> vp.animation.step, frame |-> vp.animation.frame,
                       scale |-> vp.scale, scale_speed |-> vp.scale_speed,
                       slow_scale_speed |-> vp.slow_scale_speed,
                       shift |-> vp.shift, prev_shift |-> vp.prev_shift,
                       camera |-> vp.camera] >>, th, k)

\* the uninterrupted runs of the lists a session starts with
C32_Uninterrupted == [th \in InitialThings |-> C32_Run(th, MaxFrame)]

\* C32: Play and Pause change active and nothing else of the Viewport or
\* the list; and the fields after k applied ticks are those of k
\* uninterrupted ticks from Viewport::init of the list, however Play and
\* Pause (and visits to the Data tab that end with the same list) are
\* interleaved.
C32_PausesInvisible ==
    /\ [][(tab = "Preview" /\ tab' = "Preview" /\ active' # active) =>
             /\ C32_Fields' = C32_Fields
             /\ things' = things]_vars
    /\ []((tab = "Preview" /\ things \in InitialThings) =>
             C32_Fields = C32_Uninterrupted[things][ticks + 1])

\* a paused Viewport in its first Slowing phase, after Shifting, Idle and
\* Scaling ticks
C32_Witness ==
    /\ tab = "Preview"
    /\ things \in InitialThings
    /\ step.kind = "Slowing"
    /\ ~active
    /\ ticks > SHIFTING_FRAMES + IDLE_FRAMES + 3

\* C33: the list does not change between two ticks of one Viewport: Edit
\* (Preview -> Data) leaves active false, so active is false throughout the
\* Data tab and no tick is applied there; a tick does not change the list;
\* the list changes only inside the Data tab; and the only step back to
\* Preview keeps the list and leaves Viewport::init of it (frame 0,
\* inactive, Shifting with the full countdown, shift 0).
C33_ListFixedWhileTicking ==
    /\ [](tab = "Data" => ~active)
    /\ [][/\ frame' = frame + 1 => (tab = "Preview" /\ things' = things)
          /\ (tab = "Preview" /\ tab' = "Data") => ~active'
          /\ things' # things => (tab = "Data" /\ tab' = "Data")
          /\ (tab = "Data" /\ tab' = "Preview") =>
                /\ things' = things
                /\ frame' = 0
                /\ ~active'
                /\ step' = [kind |-> "Shifting", n |-> SHIFTING_FRAMES]
                /\ shift' = 0
                /\ prev_shift' = 0
                /\ scale_speed' = IDLE_SCALE_SPEED
                /\ scale' = IF Len(things') = 0 THEN 0
                            ELSE FAdd(ThingScale(things'[1]), 0 - SCALE_PADDING)
                /\ camera' = INITIAL_CAMERA_POSITION]_vars

\* the Data tab with a list of one item (no session starts with one) over
\* a Viewport that has run
C33_Witness ==
    /\ tab = "Data"
    /\ Len(things) = 1
    /\ frame > 0
    /\ ~active

\* C34: scale_speed >= IDLE_SCALE_SPEED > 0 and
\* slow_scale_speed <= INITIAL_SLOW_SCALE_SPEED in every state; outside
\* Scaling (so after every tick that leaves the step in Slowing, Pausing,
\* Shifting or Idle) scale_speed <= INITIAL_SLOW_SCALE_SPEED: the speed
\* built up while Scaling is clamped on entry to Slowing.
C34_SpeedBounds ==
    /\ (25 * SPEED_UNIT) \div 1000 > 0
    /\ scale_speed >= (25 * SPEED_UNIT) \div 1000
    /\ slow_scale_speed <= 3 * SPEED_UNIT
    /\ step.kind \in {"Slowing", "Pausing", "Shifting", "Idle"} =>
          scale_speed <= 3 * SPEED_UNIT

\* the tick that enters Slowing from a Scaling phase whose speed had
\* passed the cap: both speeds sit exactly on the cap
C34_Witness ==
    /\ step = Slowing(SLOWING_FRAMES)
    /\ slow_scale_speed = INITIAL_SLOW_SCALE_SPEED
    /\ scale_speed = INITIAL_SLOW_SCALE_SPEED
    /\ prev_shift = 2 * SHIFT_UNIT

\* C35: for any non-empty list the first Scaling phase (shift = 1, awaiting
\* item 0) ends on its very next tick: scaling_done is true and the tick
\* gives Slowing(SLOWING_FRAMES), entered with
\* scale_speed = IDLE_SCALE_SPEED + SCALE_ACCELERATION / FPS.
C35_FirstScalingOneTick ==
    [][(/\ frame' = frame + 1
        /\ Len(things) >= 1
        /\ step.kind = "Scaling"
        /\ prev_shift = SHIFT_UNIT) =>
          /\ scaling_done'
          /\ step' = [kind |-> "Slowing", n |-> SLOWING_FRAMES]
          /\ scale_speed' = IDLE_SCALE_SPEED
                 + (SCALE_ACCELERATION * FRAME_DURATION) \div 1000]_vars

=============================================================================
